---- MODULE Spec2Model ----
(***************************************************************************)
(* Model of the three batch jobs of revenue-data-analysis:                 *)
(*   loader     src/src/data_loader.py       CSV -> transactional insert   *)
(*   validator  src/scripts/data_validator.py   cross-table checks         *)
(*   quality    src/scripts/data_quality.py  SQL checks -> audit table     *)
(* The jobs share no runtime state; a behaviour runs one of them (job).    *)
(* The loader is run either as one call of insert_data (any table, either  *)
(* value of truncate_table) or as main, which loads TABLES_MAP in order.    *)
(*                                                                         *)
(* The database is modelled by what the statements of the code do to it:   *)
(* a connection sees its own uncommitted work (db, audit), a rollback      *)
(* restores the committed contents, a commit makes the work the committed  *)
(* contents.  SET IDENTITY_INSERT is a session setting of SQL Server: it   *)
(* is not part of the transaction and a rollback does not undo it, while  *)
(* TRUNCATE TABLE is part of it.  Every statement sent to the database may *)
(* fail (constraint violation, lost connection, ...); a failed statement   *)
(* raises and changes nothing, except that to_sql may fail after it has    *)
(* appended some of its rows.  Tables of the quality checker are sets of   *)
(* rows and the audit table a bag: SQL gives the rows no order.            *)
(***************************************************************************)
EXTENDS Integers, Sequences, FiniteSets, Bags

VARIABLES
    job,                \* which of the three jobs this behaviour runs
    pc,                 \* position in the job's code
    \* ---- loader ----
    db,                 \* table name -> rows (key values) as the connection sees them
    committed,          \* table name -> rows that are committed
    identity_insert,    \* session setting: "OFF" or the table it is ON for
    table_name,         \* argument of insert_data / exec_insert_transaction
    truncate_table,     \* argument of insert_data / exec_insert_transaction
    data,               \* the DataFrame read from the CSV (key values of its rows)
    appended,           \* rows of data that to_sql has sent so far
    exc,                \* the exception that is propagating ("none" if none)
    failed,             \* history: the steps of this call that failed
    executed,           \* history: the statements of this call that were sent
    pre,                \* history: committed contents when the call started
    main_i,             \* main's position in TABLES_MAP (0: the call is not main's)
    calls,              \* history: the CSV contents of main's insert_data calls, in order
    exit_status,        \* the loader process's exit status (NoExit while it runs)
    pre_run,            \* history: committed contents when the job started
    \* ---- validator ----
    invoices_df,        \* rows [ReNummer, KdNr] read from invoices.csv
    positions_df,       \* rows [id, ReId, KdNr, Bildnummer] read from positions.csv
    customers_df,       \* rows [Kdnr] read from customers.csv
    results,            \* outcome of perform_validation_checks
    \* ---- quality checker ----
    positions,          \* table Abrechnung_Positionen: rows [id, ReId, Bildnummer]
    invoices,           \* table Abrechnung_Rechnungen: rows [ReNummer, Zahlungsdatum,
                        \*                                    ZahlungsbetragBrutto]
    audit,              \* table Abrechnung_Data_Quality as the connection sees it (a bag)
    audit_committed,    \* its committed rows (a bag)
    check,              \* the check that is running: index into CHECKS
    bulk_data,          \* the rows the running check has built (a bag)
    logs_count,         \* perform_data_quality_checks' running total
    q_exc,              \* whether an exception is propagating out of the run
    run,                \* number of the run of the job
    counts,             \* history: what each check of this run returned
    inserted,           \* history: the rows each check of this run inserted (bags)
    reported,           \* history: the total line 172 reported (NotReported if none)
    runs_done           \* history: [start, ok, findings] of the completed runs

mainVars == <<main_i, calls, exit_status, pre_run>>

loaderVars == <<db, committed, identity_insert, table_name, truncate_table,
                data, appended, exc, failed, executed, pre, mainVars>>

validatorVars == <<invoices_df, positions_df, customers_df, results>>

qualityVars == <<positions, invoices, audit, audit_committed, check, bulk_data,
                 logs_count, q_exc, run, counts, inserted, reported, runs_done>>

vars == <<job, pc, loaderVars, validatorVars, qualityVars>>

----------------------------------------------------------------------------
(* Bounds *)

MaxKey == 2         \* key values are 1..MaxKey
MaxData == 2        \* rows of a source CSV
MaxPre == 1         \* rows a destination table holds before the job
MaxCsvRows == 2     \* rows of the three CSV files of a validator run, together
MaxDbRows == 3      \* rows of the positions and invoices tables, together
MaxRuns == 2        \* runs of the quality checker in succession
MaxLoad == 1        \* rows of each CSV file of a run of the loader's main

Keys == 1..MaxKey

\* Sequences over S of length at most n
RECURSIVE SeqsUpTo(_, _)
SeqsUpTo(S, n) ==
    IF n = 0 THEN {<<>>}
    ELSE LET shorter == SeqsUpTo(S, n - 1)
         IN  shorter \cup {Append(s, x) : s \in {t \in shorter : Len(t) = n - 1}, x \in S}

----------------------------------------------------------------------------
(* Loader: src/src/data_loader.py *)

TABLES_MAP == <<"Abrechnung_Positionen", "Abrechnung_Rechnungen", "Abrechnung_Kunden">>

Tables == {TABLES_MAP[i] : i \in DOMAIN TABLES_MAP}

\* Variant of insert_data_call with the truncate_table test inverted.
insert_data_call_inverted ==
    /\ job = "loader"
    /\ pc = "insert_data"
    /\ pc' = IF truncate_table THEN "identity_on" ELSE "truncate"
    /\ UNCHANGED <<job, validatorVars, qualityVars, loaderVars>>

\* insert_data, lines 125-130: read the CSV, open a connection, call
\* exec_insert_transaction, whose "with connection.begin()" opens the transaction.
insert_data_call ==
    /\ job = "loader"
    /\ pc = "insert_data"
    /\ pc' = IF truncate_table THEN "truncate" ELSE "identity_on"
    /\ UNCHANGED <<job, validatorVars, qualityVars, loaderVars>>

\* lines 78-82: TRUNCATE TABLE succeeds.
TruncateOk ==
    /\ job = "loader"
    /\ pc = "truncate"
    /\ db' = [db EXCEPT ![table_name] = <<>>]
    /\ executed' = executed \cup {"truncate"}
    /\ pc' = "identity_on"
    /\ UNCHANGED <<job, validatorVars, qualityVars, mainVars, committed, identity_insert, table_name, truncate_table,
                   data, appended, exc, failed, pre>>

\* lines 78-82: TRUNCATE TABLE raises; the exception leaves the with block.
TruncateFail ==
    /\ job = "loader"
    /\ pc = "truncate"
    /\ executed' = executed \cup {"truncate"}
    /\ failed' = failed \cup {"truncate"}
    /\ exc' = "truncate"
    /\ pc' = "tx_exit"
    /\ UNCHANGED <<job, validatorVars, qualityVars, mainVars, db, committed, identity_insert, table_name, truncate_table,
                   data, appended, pre>>

\* lines 85-87: SET IDENTITY_INSERT ... ON succeeds (a session allows it for one
\* table at a time).
IdentityOnOk ==
    /\ job = "loader"
    /\ pc = "identity_on"
    /\ identity_insert \in {"OFF", table_name}
    /\ identity_insert' = table_name
    /\ executed' = executed \cup {"identity_on"}
    /\ pc' = "to_sql"
    /\ UNCHANGED <<job, validatorVars, qualityVars, mainVars, db, committed, table_name, truncate_table,
                   data, appended, exc, failed, pre>>

\* lines 85-87: SET IDENTITY_INSERT ... ON raises, before the try block is entered.
IdentityOnFail ==
    /\ job = "loader"
    /\ pc = "identity_on"
    /\ executed' = executed \cup {"identity_on"}
    /\ failed' = failed \cup {"identity_on"}
    /\ exc' = "identity_on"
    /\ pc' = "tx_exit"
    /\ UNCHANGED <<job, validatorVars, qualityVars, mainVars, db, committed, identity_insert, table_name, truncate_table,
                   data, appended, pre>>

\* lines 89-95: to_sql appends the next row of data, with its own key value
\* (explicit identity values are accepted only while IDENTITY_INSERT is ON).
AppendRow ==
    /\ job = "loader"
    /\ pc = "to_sql"
    /\ appended < Len(data)
    /\ identity_insert = table_name
    /\ db' = [db EXCEPT ![table_name] = Append(@, data[appended + 1])]
    /\ appended' = appended + 1
    /\ executed' = executed \cup {"to_sql"}
    /\ UNCHANGED <<job, validatorVars, qualityVars, mainVars, pc, committed, identity_insert, table_name, truncate_table,
                   data, exc, failed, pre>>

\* lines 89-95: to_sql returns after the last row.
AppendDone ==
    /\ job = "loader"
    /\ pc = "to_sql"
    /\ appended = Len(data)
    /\ executed' = executed \cup {"to_sql"}
    /\ pc' = "finally"
    /\ UNCHANGED <<job, validatorVars, qualityVars, mainVars, db, committed, identity_insert, table_name, truncate_table,
                   data, appended, exc, failed, pre>>

\* Variant of AppendFail with the cleanup on the success path only (no finally).
AppendFail_without_finally ==
    /\ job = "loader"
    /\ pc = "to_sql"
    /\ executed' = executed \cup {"to_sql"}
    /\ failed' = failed \cup {"to_sql"}
    /\ exc' = "to_sql"
    /\ pc' = "tx_exit"
    /\ UNCHANGED <<job, validatorVars, qualityVars, mainVars, db, committed, identity_insert,
                   table_name, truncate_table, data, appended, pre>>

\* lines 89-97: to_sql raises, at the start or mid-way; "except ... raise exc"
\* re-raises it and control goes to the finally block.
AppendFail ==
    /\ job = "loader"
    /\ pc = "to_sql"
    /\ executed' = executed \cup {"to_sql"}
    /\ failed' = failed \cup {"to_sql"}
    /\ exc' = "to_sql"
    /\ pc' = "finally"
    /\ UNCHANGED <<job, validatorVars, qualityVars, mainVars, db, committed, identity_insert, table_name, truncate_table,
                   data, appended, pre>>

\* lines 98-102: the finally block's SET IDENTITY_INSERT ... OFF succeeds; a
\* propagating exception goes on propagating.
IdentityOffOk ==
    /\ job = "loader"
    /\ pc = "finally"
    /\ identity_insert' = "OFF"
    /\ executed' = executed \cup {"identity_off"}
    /\ pc' = "tx_exit"
    /\ UNCHANGED <<job, validatorVars, qualityVars, mainVars, db, committed, table_name, truncate_table,
                   data, appended, exc, failed, pre>>

\* lines 98-102: the finally block's SET IDENTITY_INSERT ... OFF raises; an
\* exception raised in a finally block replaces the one that was propagating.
IdentityOffFail ==
    /\ job = "loader"
    /\ pc = "finally"
    /\ executed' = executed \cup {"identity_off"}
    /\ failed' = failed \cup {"identity_off"}
    /\ exc' = "identity_off"
    /\ pc' = "tx_exit"
    /\ UNCHANGED <<job, validatorVars, qualityVars, mainVars, db, committed, identity_insert, table_name, truncate_table,
                   data, appended, pre>>

\* Variant of TxExit on a connection that commits whatever was executed
\* (autocommit instead of a transaction).
TxExit_autocommit ==
    /\ job = "loader"
    /\ pc = "tx_exit"
    /\ committed' = db
    /\ db' = db
    /\ pc' = IF exc = "none" THEN "returned" ELSE "raised"
    /\ UNCHANGED <<job, validatorVars, qualityVars, mainVars, identity_insert, table_name,
                   truncate_table, data, appended, exc, failed, executed, pre>>

\* line 77: leaving "with connection.begin()": commit when no exception
\* propagates, roll back and let the exception go on when one does.
TxExit ==
    /\ job = "loader"
    /\ pc = "tx_exit"
    /\ IF exc = "none"
       THEN /\ committed' = db
            /\ db' = db
            /\ pc' = "returned"
       ELSE /\ db' = committed
            /\ committed' = committed
            /\ pc' = "raised"
    /\ UNCHANGED <<job, validatorVars, qualityVars, mainVars, identity_insert, table_name, truncate_table,
                   data, appended, exc, failed, executed, pre>>

\* line 128: read_csv raises (file missing, undecodable bytes); no connection
\* has been opened and the exception leaves insert_data.
ReadCsvFail ==
    /\ job = "loader"
    /\ pc = "insert_data"
    /\ failed' = failed \cup {"read_csv"}
    /\ exc' = "read_csv"
    /\ pc' = "raised"
    /\ UNCHANGED <<job, validatorVars, qualityVars, mainVars, db, committed, identity_insert,
                   table_name, truncate_table, data, appended, executed, pre>>

NoExit == 0 - 1

\* main, lines 154-155: the loop calls insert_data for the next table of
\* TABLES_MAP, with the default truncate_table = True; data is what read_csv
\* (line 128) finds in the table's file.
main_call_insert_data ==
    /\ job = "loader"
    /\ pc = "main"
    /\ main_i \in DOMAIN TABLES_MAP
    /\ \E df \in SeqsUpTo(Keys, MaxLoad) :
          /\ data' = df
          /\ calls' = Append(calls, df)
    /\ table_name' = TABLES_MAP[main_i]
    /\ truncate_table' = TRUE
    /\ appended' = 0
    /\ exc' = "none"
    /\ failed' = {}
    /\ executed' = {}
    /\ pre' = committed
    /\ pc' = "insert_data"
    /\ UNCHANGED <<job, validatorVars, qualityVars, db, committed, identity_insert,
                   main_i, exit_status, pre_run>>

\* main, lines 154-155 and 159-161: insert_data returned; the loop goes on to
\* the next table, or ends after the last one and the process exits normally.
main_loop_next ==
    /\ job = "loader"
    /\ pc = "returned"
    /\ main_i \in DOMAIN TABLES_MAP
    /\ IF main_i < Len(TABLES_MAP)
       THEN /\ main_i' = main_i + 1
            /\ pc' = "main"
            /\ exit_status' = exit_status
       ELSE /\ main_i' = main_i
            /\ pc' = "exited"
            /\ exit_status' = 0
    /\ UNCHANGED <<job, validatorVars, qualityVars, db, committed, identity_insert,
                   table_name, truncate_table, data, appended, exc, failed, executed,
                   pre, calls, pre_run>>

\* Variant of main_except that swallows the error and goes on with the loop.
main_except_continue ==
    /\ job = "loader"
    /\ pc = "raised"
    /\ main_i \in DOMAIN TABLES_MAP
    /\ IF main_i < Len(TABLES_MAP)
       THEN /\ main_i' = main_i + 1
            /\ pc' = "main"
            /\ exit_status' = exit_status
       ELSE /\ main_i' = main_i
            /\ pc' = "exited"
            /\ exit_status' = 0
    /\ UNCHANGED <<job, validatorVars, qualityVars, db, committed, identity_insert,
                   table_name, truncate_table, data, appended, exc, failed, executed,
                   pre, calls, pre_run>>

\* main, lines 156-161: an exception out of insert_data ends the loop; the
\* handler prints it and calls sys.exit(1), the finally block disposes the engine.
main_except ==
    /\ job = "loader"
    /\ pc = "raised"
    /\ main_i \in DOMAIN TABLES_MAP
    /\ exit_status' = 1
    /\ pc' = "exited"
    /\ UNCHANGED <<job, validatorVars, qualityVars, db, committed, identity_insert,
                   table_name, truncate_table, data, appended, exc, failed, executed,
                   pre, main_i, calls, pre_run>>

----------------------------------------------------------------------------
(* Validator: src/scripts/data_validator.py *)

\* A cell of a DataFrame: absent (NaN, from an empty field or the token NULL), a
\* number, text that reads as a number ("1"), or text that does not ("abc").
Null == [t |-> "null", v |-> 0]
Num(n) == [t |-> "num", v |-> n]
Text(n) == [t |-> "text", v |-> n]
Garbage == [t |-> "garbage", v |-> 0]

PLACEHOLDER_MEDIA_ID == 100000000

\* Series.isnull / notnull
isnull(c) == c.t = "null"

\* pd.to_numeric(..., errors="coerce"): numbers and numeric text give the number,
\* absent cells and unparseable text give NaN.
to_numeric(c) ==
    IF c.t \in {"num", "text"} THEN [nan |-> FALSE, v |-> c.v] ELSE [nan |-> TRUE, v |-> 0]

\* Series.isin(values), values a set of integers: NaN is in no such set.
isin(x, values) == ~x.nan /\ x.v \in values

\* set(pd.to_numeric(column, errors="coerce").dropna().astype(int))
valid_ids(df, column) ==
    {to_numeric(df[i][column]).v : i \in {j \in DOMAIN df : ~to_numeric(df[j][column]).nan}}

\* The format specification ".0f" applies to numbers; for a str value format()
\* raises ValueError.
format_0f_raises(c) == c.t \in {"text", "garbage"}

\* df[mask] followed by iterrows(): the positions (1-based) of the rows a boolean
\* mask selects, in row order.
selected(mask) ==
    SelectSeq([i \in 1..Len(mask) |-> i], LAMBDA i : mask[i])

\* An issue string, as the values the f-string puts into it; row is the position
\* of the row it was written for (index label = row - 1) and rule the rule.
Issue(rule, row, who, key, idx, msg, val) ==
    [rule |-> rule, row |-> row,
     text |-> [who |-> who, key |-> key, idx |-> idx, msg |-> msg, val |-> val]]

NoIndex == 0 - 1

\* perform_invoice_checks, lines 52-69
perform_invoice_checks(df, valid_customer_ids) ==
    LET missing ==
            selected([i \in DOMAIN df |-> isnull(df[i].KdNr) \/ isnull(df[i].ReNummer)])
        invalid_kdnr_inv ==
            selected([i \in DOMAIN df |->
                         /\ ~isnull(df[i].KdNr)
                         /\ ~isin(to_numeric(df[i].KdNr), valid_customer_ids)])
        raised == \E k \in DOMAIN invalid_kdnr_inv :
                      format_0f_raises(df[invalid_kdnr_inv[k]].KdNr)
        i1 == [k \in DOMAIN missing |->
                  Issue("I1", missing[k], "Invoice", df[missing[k]].ReNummer,
                        missing[k] - 1, "Missing KdNr or ReNummer", 0)]
        i2 == [k \in DOMAIN invalid_kdnr_inv |->
                  Issue("I2", invalid_kdnr_inv[k], "Invoice",
                        df[invalid_kdnr_inv[k]].ReNummer, NoIndex,
                        "Invalid KdNr", df[invalid_kdnr_inv[k]].KdNr.v)]
    IN  IF raised THEN [raised |-> TRUE, issues |-> <<>>]
        ELSE [raised |-> FALSE, issues |-> i1 \o i2]

\* perform_position_checks, lines 93-129
perform_position_checks(df, valid_invoice_ids, valid_customer_ids) ==
    LET missing == selected([i \in DOMAIN df |-> isnull(df[i].ReId)])
        invalid_reid_pos ==
            selected([i \in DOMAIN df |->
                         /\ ~isnull(df[i].ReId)
                         /\ ~isin(to_numeric(df[i].ReId), valid_invoice_ids)])
        invalid_kdnr_pos ==
            selected([i \in DOMAIN df |->
                         /\ ~isnull(df[i].KdNr)
                         /\ ~isin(to_numeric(df[i].KdNr), valid_customer_ids)])
        placeholders ==
            selected([i \in DOMAIN df |->
                         /\ ~to_numeric(df[i].Bildnummer).nan
                         /\ to_numeric(df[i].Bildnummer).v = PLACEHOLDER_MEDIA_ID])
        raised == \/ \E k \in DOMAIN invalid_reid_pos :
                         format_0f_raises(df[invalid_reid_pos[k]].ReId)
                  \/ \E k \in DOMAIN invalid_kdnr_pos :
                         format_0f_raises(df[invalid_kdnr_pos[k]].KdNr)
        p1 == [k \in DOMAIN missing |->
                  Issue("P1", missing[k], "Position", df[missing[k]].id,
                        missing[k] - 1, "Missing ReId", 0)]
        p2 == [k \in DOMAIN invalid_reid_pos |->
                  Issue("P2", invalid_reid_pos[k], "Position",
                        df[invalid_reid_pos[k]].id, NoIndex,
                        "Invalid ReId", df[invalid_reid_pos[k]].ReId.v)]
        p3 == [k \in DOMAIN invalid_kdnr_pos |->
                  Issue("P3", invalid_kdnr_pos[k], "Position",
                        df[invalid_kdnr_pos[k]].id, NoIndex,
                        "Invalid KdNr", df[invalid_kdnr_pos[k]].KdNr.v)]
        p4 == [k \in DOMAIN placeholders |->
                  Issue("P4", placeholders[k], "Position",
                        df[placeholders[k]].id, NoIndex,
                        "Uses placeholder Bildnummer", 0)]
    IN  IF raised THEN [raised |-> TRUE, issues |-> <<>>]
        ELSE [raised |-> FALSE, issues |-> p1 \o p2 \o p3 \o p4]

\* Variant of perform_validation_checks that assigns the position issues to
\* all_issues instead of extending it.
perform_validation_checks_overwrite(inv, pos, cust) ==
    LET valid_customer_ids == valid_ids(cust, "Kdnr")
        valid_invoice_ids == valid_ids(inv, "ReNummer")
        invoice_issues == perform_invoice_checks(inv, valid_customer_ids)
        position_issues ==
            perform_position_checks(pos, valid_invoice_ids, valid_customer_ids)
    IN  [ran |-> TRUE,
         raised |-> invoice_issues.raised \/ position_issues.raised,
         invoice_issues |-> invoice_issues,
         position_issues |-> IF invoice_issues.raised
                             THEN [raised |-> FALSE, issues |-> <<>>]
                             ELSE position_issues,
         all_issues |-> IF invoice_issues.raised \/ position_issues.raised
                        THEN <<>>
                        ELSE position_issues.issues]

\* perform_validation_checks, lines 153-167: an exception of either check
\* propagates; otherwise the two lists are concatenated.
perform_validation_checks(inv, pos, cust) ==
    LET valid_customer_ids == valid_ids(cust, "Kdnr")
        valid_invoice_ids == valid_ids(inv, "ReNummer")
        invoice_issues == perform_invoice_checks(inv, valid_customer_ids)
        position_issues ==
            perform_position_checks(pos, valid_invoice_ids, valid_customer_ids)
    IN  [ran |-> TRUE,
         raised |-> invoice_issues.raised \/ position_issues.raised,
         invoice_issues |-> invoice_issues,
         position_issues |-> IF invoice_issues.raised
                             THEN [raised |-> FALSE, issues |-> <<>>]
                             ELSE position_issues,
         all_issues |-> IF invoice_issues.raised \/ position_issues.raised
                        THEN <<>>
                        ELSE invoice_issues.issues \o position_issues.issues]

NoResults ==
    [ran |-> FALSE, raised |-> FALSE,
     invoice_issues |-> [raised |-> FALSE, issues |-> <<>>],
     position_issues |-> [raised |-> FALSE, issues |-> <<>>],
     all_issues |-> <<>>]

\* Values of the CSV fields.  One identifier is enough for a reference to be
\* valid, invalid, unparseable or absent: validity is decided by the other tables.
Ids == {1}
PositionIds == {1, 2}
KeyCells == {Null} \cup {Num(n) : n \in Ids}
RefCells == KeyCells \cup {Text(n) : n \in Ids} \cup {Garbage}
MediaCells == {Num(PLACEHOLDER_MEDIA_ID)} \cup {Num(n) : n \in Ids}

InvoiceRows == [ReNummer : KeyCells, KdNr : RefCells]
PositionRows == [id : {Num(n) : n \in PositionIds}, ReId : RefCells, KdNr : RefCells,
                 Bildnummer : MediaCells]
CustomerRows == [Kdnr : KeyCells]

\* main, lines 201-214: the three files are read, the checks run.  The validator
\* is a function of the three files; the files are the initial state.
validator_main ==
    /\ job = "validator"
    /\ pc = "validate"
    /\ results' = perform_validation_checks(invoices_df, positions_df, customers_df)
    /\ pc' = IF results'.raised THEN "error" ELSE "done"
    /\ UNCHANGED <<job, loaderVars, qualityVars, invoices_df, positions_df, customers_df>>

----------------------------------------------------------------------------
(* Quality checker: src/scripts/data_quality.py *)

CHECKS == <<"missing_payment", "placeholder_media", "empty_invoice">>

NotReported == 0 - 1

\* SQL "a = b": true only when neither side is NULL.
sql_eq(a, b) == ~isnull(a) /\ ~isnull(b) /\ a.v = b.v

\* The list comprehension "[{...} for x in result]" up to order: the bag holding
\* one row[x] for every x in the domain of row.
BagOf(row) ==
    [r \in {row[x] : x \in DOMAIN row} |-> Cardinality({x \in DOMAIN row : row[x] = r})]

\* The dictionaries of bulk_data: one row of Abrechnung_Data_Quality.
AuditRow(table, record_id, issue_type, notes) ==
    [TableName |-> table, RecordId |-> record_id, IssueType |-> issue_type,
     Notes |-> notes]

\* lines 64-69: positions JOIN invoices ON AP.ReId = AR.ReNummer WHERE the
\* invoice's payment date or amount IS NULL; one result row per joined pair.
missing_payment_positions(P, I) ==
    {pair \in P \X I :
        /\ sql_eq(pair[1].ReId, pair[2].ReNummer)
        /\ (isnull(pair[2].Zahlungsdatum) \/ isnull(pair[2].ZahlungsbetragBrutto))}

\* lines 98-102: positions WHERE Bildnummer = :media_id
placeholder_positions(P) ==
    {p \in P : sql_eq(p.Bildnummer, Num(PLACEHOLDER_MEDIA_ID))}

\* Variant of empty_invoices without the WHERE clause: every row of the left join.
empty_invoices_no_where(I, P) ==
    {<<ar, Null>> : ar \in {x \in I : {ap \in P : sql_eq(x.ReNummer, ap.ReId)} = {}}}
    \cup {pair \in I \X P : sql_eq(pair[1].ReNummer, pair[2].ReId)}

\* lines 130-135: invoices LEFT JOIN positions ON AR.ReNummer = AP.ReId WHERE
\* AP.id IS NULL.  An invoice without a match is joined to an all-NULL position
\* row; the result is given as pairs <<invoice, position or Null>>.
empty_invoices(I, P) ==
    LET matches(ar) == {ap \in P : sql_eq(ar.ReNummer, ap.ReId)}
    IN  {<<ar, Null>> : ar \in {x \in I : matches(x) = {}}}
        \cup {pair \in I \X P : pair[2] \in matches(pair[1]) /\ isnull(pair[2].id)}

\* lines 71-79
payment_bulk_data(P, I) ==
    BagOf([pair \in missing_payment_positions(P, I) |->
              AuditRow("Abrechnung_Positionen", pair[1].id, "missing_payment",
                       "Position linked to invoice without payment data")])

\* lines 103-111
media_bulk_data(P) ==
    BagOf([p \in placeholder_positions(P) |->
              AuditRow("Abrechnung_Positionen", p.id, "placeholder_media",
                       "Position using placeholder media ID")])

\* lines 137-145
invoices_bulk_data(I, P) ==
    BagOf([pair \in empty_invoices(I, P) |->
              AuditRow("Abrechnung_Rechnungen", pair[1].ReNummer, "empty_invoice",
                       "Invoice has no associated positions")])

\* The bulk_data of check c (lines 166, 168, 170 call the checks in this order).
bulk_data_of(c, P, I) ==
    CASE c = 1 -> payment_bulk_data(P, I)
      [] c = 2 -> media_bulk_data(P)
      [] c = 3 -> invoices_bulk_data(I, P)

\* Variant of insert_bulk_data that skips the rows the table already holds.
insert_bulk_data_dedup(table, rows) ==
    table (+) [r \in {x \in BagToSet(rows) : ~BagIn(x, table)} |-> rows[r]]

\* insert_bulk_data, lines 44-48: INSERT INTO Abrechnung_Data_Quality, one row
\* per dictionary; nothing is looked up, updated or deleted.
insert_bulk_data(table, rows) == table (+) rows

\* lines 64-69, 98-102, 130-135: the running check's SELECT succeeds and its
\* bulk_data is built.
QueryOk ==
    /\ job = "quality"
    /\ pc = "query"
    /\ bulk_data' = bulk_data_of(check, positions, invoices)
    /\ pc' = "insert"
    /\ UNCHANGED <<job, loaderVars, validatorVars, positions, invoices, audit,
                   audit_committed, check, logs_count, q_exc, run, counts, inserted,
                   reported, runs_done>>

\* The running check's SELECT raises; the exception leaves the with block.
QueryFail ==
    /\ job = "quality"
    /\ pc = "query"
    /\ q_exc' = TRUE
    /\ pc' = "q_exit"
    /\ UNCHANGED <<job, loaderVars, validatorVars, positions, invoices, audit,
                   audit_committed, check, bulk_data, logs_count, run, counts,
                   inserted, reported, runs_done>>

\* lines 80-82, 112-114, 146-148 and 166-172: "if bulk_data:" inserts a non-empty
\* bulk_data, the check returns len(bulk_data), logs_count grows by it; after the
\* third check the total is reported and the with block is left.
InsertOk ==
    /\ job = "quality"
    /\ pc = "insert"
    /\ audit' = IF BagCardinality(bulk_data) > 0
                THEN insert_bulk_data(audit, bulk_data)
                ELSE audit
    /\ inserted' = [inserted EXCEPT ![check] = audit' (-) audit]
    /\ counts' = [counts EXCEPT ![check] = BagCardinality(bulk_data)]
    /\ logs_count' = logs_count + BagCardinality(bulk_data)
    /\ IF check < Len(CHECKS)
       THEN /\ check' = check + 1
            /\ pc' = "query"
            /\ reported' = reported
       ELSE /\ check' = check
            /\ pc' = "q_exit"
            /\ reported' = logs_count'
    /\ bulk_data' = EmptyBag
    /\ UNCHANGED <<job, loaderVars, validatorVars, positions, invoices,
                   audit_committed, q_exc, run, runs_done>>

\* insert_bulk_data's INSERT raises (there is one only for a non-empty bulk_data).
InsertFail ==
    /\ job = "quality"
    /\ pc = "insert"
    /\ BagCardinality(bulk_data) > 0
    /\ q_exc' = TRUE
    /\ pc' = "q_exit"
    /\ UNCHANGED <<job, loaderVars, validatorVars, positions, invoices, audit,
                   audit_committed, check, bulk_data, logs_count, run, counts,
                   inserted, reported, runs_done>>

\* Variant of QExit on a connection that commits whatever was executed.
QExit_autocommit ==
    /\ job = "quality"
    /\ pc = "q_exit"
    /\ audit_committed' = audit
    /\ audit' = audit
    /\ pc' = IF q_exc THEN "q_error" ELSE "q_done"
    /\ runs_done' = Append(runs_done,
                           [start |-> audit_committed, ok |-> ~q_exc,
                            findings |-> audit_committed' (-) audit_committed])
    /\ UNCHANGED <<job, loaderVars, validatorVars, positions, invoices, check,
                   bulk_data, logs_count, q_exc, run, counts, inserted, reported>>

\* main, lines 187-191: leaving "with engine.begin()": commit when no exception
\* propagates; otherwise roll back, report the error and exit with status 1.
QExit ==
    /\ job = "quality"
    /\ pc = "q_exit"
    /\ IF q_exc
       THEN /\ audit' = audit_committed
            /\ audit_committed' = audit_committed
            /\ pc' = "q_error"
       ELSE /\ audit_committed' = audit
            /\ audit' = audit
            /\ pc' = "q_done"
    /\ runs_done' = Append(runs_done,
                           [start |-> audit_committed, ok |-> ~q_exc,
                            findings |-> audit_committed' (-) audit_committed])
    /\ UNCHANGED <<job, loaderVars, validatorVars, positions, invoices, check,
                   bulk_data, logs_count, q_exc, run, counts, inserted, reported>>

\* The job is started again, on the same tables (main, lines 182-188).
RunAgain ==
    /\ job = "quality"
    /\ pc \in {"q_done", "q_error"}
    /\ run < MaxRuns
    /\ run' = run + 1
    /\ pc' = "query"
    /\ check' = 1
    /\ bulk_data' = EmptyBag
    /\ logs_count' = 0
    /\ q_exc' = FALSE
    /\ counts' = [c \in DOMAIN CHECKS |-> 0]
    /\ inserted' = [c \in DOMAIN CHECKS |-> EmptyBag]
    /\ reported' = NotReported
    /\ UNCHANGED <<job, loaderVars, validatorVars, positions, invoices, audit,
                   audit_committed, runs_done>>

QIds == {1, 2}
PositionTableRows ==
    [id : {Num(n) : n \in QIds},
     ReId : {Null} \cup {Num(n) : n \in QIds},
     Bildnummer : {Num(PLACEHOLDER_MEDIA_ID), Num(1)}]
InvoiceTableRows ==
    [ReNummer : {Num(n) : n \in QIds},
     Zahlungsdatum : {Null, Num(1)},
     ZahlungsbetragBrutto : {Null, Num(1)}]

\* A row an earlier run of the job left in the audit table.
EarlierRow ==
    AuditRow("Abrechnung_Positionen", Num(1), "placeholder_media",
             "Position using placeholder media ID")

\* The subsets of S with at most n elements
SubsetsUpTo(S, n) == {T \in SUBSET S : Cardinality(T) <= n}

QualityNext ==
    \/ QueryOk
    \/ QueryFail
    \/ InsertOk
    \/ InsertFail
    \/ QExit
    \/ RunAgain

\* The loader's variables in a behaviour that runs another job.
LoaderIdle ==
    /\ committed = [t \in Tables |-> <<>>]
    /\ db = committed
    /\ pre = committed
    /\ identity_insert = "OFF"
    /\ table_name = TABLES_MAP[1]
    /\ truncate_table = TRUE
    /\ data = <<>>
    /\ appended = 0
    /\ exc = "none"
    /\ failed = {}
    /\ executed = {}
    /\ main_i = 0
    /\ calls = <<>>
    /\ exit_status = NoExit
    /\ pre_run = committed

\* The other jobs' variables in a behaviour that does not run them.
ValidatorIdle ==
    /\ invoices_df = <<>>
    /\ positions_df = <<>>
    /\ customers_df = <<>>
    /\ results = NoResults

QualityIdle ==
    /\ positions = {}
    /\ invoices = {}
    /\ audit = EmptyBag
    /\ audit_committed = EmptyBag
    /\ check = 1
    /\ bulk_data = EmptyBag
    /\ logs_count = 0
    /\ q_exc = FALSE
    /\ run = 1
    /\ counts = [c \in DOMAIN CHECKS |-> 0]
    /\ inserted = [c \in DOMAIN CHECKS |-> EmptyBag]
    /\ reported = NotReported
    /\ runs_done = <<>>

QualityInit ==
    /\ job = "quality"
    /\ pc = "query"
    /\ LoaderIdle
    /\ ValidatorIdle
    /\ \E np \in 0..MaxDbRows :
          /\ positions \in {T \in SUBSET PositionTableRows : Cardinality(T) = np}
          /\ invoices \in SubsetsUpTo(InvoiceTableRows, MaxDbRows - np)
    /\ audit_committed \in {EmptyBag, SetToBag({EarlierRow})}
    /\ audit = audit_committed
    /\ check = 1
    /\ bulk_data = EmptyBag
    /\ logs_count = 0
    /\ q_exc = FALSE
    /\ run = 1
    /\ counts = [c \in DOMAIN CHECKS |-> 0]
    /\ inserted = [c \in DOMAIN CHECKS |-> EmptyBag]
    /\ reported = NotReported
    /\ runs_done = <<>>

LoaderInit ==
    /\ job = "loader"
    /\ pc = "insert_data"
    /\ \E rows \in SeqsUpTo(Keys, MaxPre) : committed = [t \in Tables |-> rows]
    /\ db = committed
    /\ pre = committed
    /\ identity_insert = "OFF"
    /\ table_name \in Tables
    /\ truncate_table \in BOOLEAN
    /\ data \in SeqsUpTo(Keys, MaxData)
    /\ appended = 0
    /\ exc = "none"
    /\ failed = {}
    /\ executed = {}
    /\ main_i = 0
    /\ calls = <<>>
    /\ exit_status = NoExit
    /\ pre_run = committed
    /\ ValidatorIdle
    /\ QualityIdle

\* The loader run as a job: main, lines 142-153, about to enter its loop; the
\* three tables hold whatever an earlier run left in them.
MainInit ==
    /\ job = "loader"
    /\ pc = "main"
    /\ \E rows \in SeqsUpTo(Keys, MaxPre) : committed = [t \in Tables |-> rows]
    /\ db = committed
    /\ pre = committed
    /\ pre_run = committed
    /\ identity_insert = "OFF"
    /\ table_name = TABLES_MAP[1]
    /\ truncate_table = TRUE
    /\ data = <<>>
    /\ appended = 0
    /\ exc = "none"
    /\ failed = {}
    /\ executed = {}
    /\ main_i = 1
    /\ calls = <<>>
    /\ exit_status = NoExit
    /\ ValidatorIdle
    /\ QualityIdle

MainNext ==
    \/ main_call_insert_data
    \/ main_loop_next
    \/ main_except

LoaderNext ==
    \/ insert_data_call
    \/ ReadCsvFail
    \/ TruncateOk
    \/ TruncateFail
    \/ IdentityOnOk
    \/ IdentityOnFail
    \/ AppendRow
    \/ AppendDone
    \/ AppendFail
    \/ IdentityOffOk
    \/ IdentityOffFail
    \/ TxExit

ValidatorInit ==
    /\ job = "validator"
    /\ pc = "validate"
    /\ LoaderIdle
    /\ \E ni \in 0..MaxCsvRows :
         \E np \in 0..(MaxCsvRows - ni) :
           \E nc \in 0..(MaxCsvRows - ni - np) :
              /\ invoices_df \in [1..ni -> InvoiceRows]
              /\ positions_df \in [1..np -> PositionRows]
              /\ customers_df \in [1..nc -> CustomerRows]
    /\ results = NoResults
    /\ QualityIdle

ValidatorNext == validator_main

----------------------------------------------------------------------------

Init == LoaderInit \/ MainInit \/ ValidatorInit \/ QualityInit

Next == LoaderNext \/ MainNext \/ ValidatorNext \/ QualityNext

Spec == Init /\ [][Next]_vars

----------------------------------------------------------------------------
(* Properties of the loader *)

\* exec_insert_transaction has returned or raised.
CallEnded == job = "loader" /\ pc \in {"returned", "raised"}

\* Range of a sequence
Range(seq) == {seq[i] : i \in DOMAIN seq}

\* C1: when exec_insert_transaction returns or raises, with truncate_table TRUE
\* or FALSE and with the truncate, the SET IDENTITY_INSERT ON or the bulk append
\* having failed, or nothing, IDENTITY_INSERT is OFF (it was OFF at the start).
C1_IdentityInsertOffAfterCall ==
    (CallEnded /\ failed \subseteq {"truncate", "identity_on", "to_sql"})
        => identity_insert = "OFF"

\* C1 witness: the append failed mid-way after IDENTITY_INSERT was set ON, the
\* call has raised and the setting is OFF again.
C1_Witness ==
    /\ job = "loader"
    /\ pc = "raised"
    /\ failed = {"to_sql"}
    /\ appended >= 1
    /\ {"identity_on", "identity_off"} \subseteq executed
    /\ identity_insert = "OFF"

\* C2: when exec_insert_transaction fails, at whichever phase, every table holds
\* exactly the rows it held before the call: the truncate and the rows already
\* appended are rolled back together.
C2_FailureLeavesRowsUnchanged ==
    (job = "loader" /\ pc = "raised") => (db = pre /\ committed = pre)

\* C2 witness: a non-empty table was truncated, a row was appended, the append
\* then failed and the call has raised.
C2_Witness ==
    /\ job = "loader"
    /\ pc = "raised"
    /\ truncate_table
    /\ "truncate" \in executed
    /\ "to_sql" \in failed
    /\ appended >= 1
    /\ pre[table_name] # <<>>
    /\ db[table_name] = pre[table_name]

\* C3 (as claimed): when the bulk append fails, the error the caller observes is
\* the append's, raised after the SET IDENTITY_INSERT OFF statement was executed,
\* also when that statement fails itself.
C3_CallerObservesAppendFailure ==
    (job = "loader" /\ pc = "raised" /\ "to_sql" \in failed)
        => (exc = "to_sql" /\ "identity_off" \in executed)

\* C4: after a successful load with truncate_table, whatever the table held, it
\* holds as many rows as the source and the key values of the source rows.
C4_TruncateLoadRoundTrip ==
    (job = "loader" /\ pc = "returned" /\ truncate_table)
        => /\ Len(committed[table_name]) = Len(data)
           /\ Range(committed[table_name]) = Range(data)
           /\ db[table_name] = committed[table_name]

\* C4 witness: a table that held a row was loaded with two rows whose keys are
\* not the ones an identity column would generate.
C4_Witness ==
    /\ job = "loader"
    /\ pc = "returned"
    /\ truncate_table
    /\ pre[table_name] = <<1>>
    /\ data = <<2, 2>>
    /\ committed[table_name] = <<2, 2>>

----------------------------------------------------------------------------
(* Properties of the quality checker *)

\* The record of the run that ended last.
LastRun == runs_done[Len(runs_done)]

\* C5: a run in which a query or an insert of any of the three checks failed
\* leaves the audit table with exactly the rows it held before the run.
C5_FailedRunLeavesAuditUnchanged ==
    (job = "quality" /\ pc = "q_error")
        => /\ audit_committed = LastRun.start
           /\ audit = LastRun.start

\* C5 witness: the third check failed after an earlier check of the same run had
\* inserted rows, the run has ended and the audit table held a row before it.
C5_Witness ==
    /\ job = "quality"
    /\ pc = "q_error"
    /\ check = 3
    /\ BagCardinality(inserted[1] (+) inserted[2]) >= 1
    /\ BagCardinality(LastRun.start) >= 1
    /\ audit_committed = LastRun.start

\* The cases of the two claims about the empty-invoice check: the third check of
\* a run has returned and no exception has been raised since.
InvoicesCheckReturned ==
    job = "quality" /\ ~q_exc /\ reported # NotReported

\* One audit row per invoice no position refers to.
ExpectedEmptyInvoiceRows ==
    LET unreferenced ==
            {ar \in invoices :
                ~\E ap \in positions : ~isnull(ap.ReId) /\ ap.ReId.v = ar.ReNummer.v}
        row(ar) == [TableName |-> "Abrechnung_Rechnungen",
                    RecordId |-> ar.ReNummer,
                    IssueType |-> "empty_invoice",
                    Notes |-> "Invoice has no associated positions"]
    IN  [r \in {row(ar) : ar \in unreferenced} |->
            Cardinality({ar \in unreferenced : row(ar) = r})]

\* C9: perform_invoices_quality_checks logs one 'empty_invoice' row, with the
\* invoice's ReNummer as RecordId, for each invoice that no position refers to,
\* and no row for any other invoice; for the single invoice 1 and no positions
\* that is exactly one row with RecordId 1.
C9_EmptyInvoicesLogged ==
    InvoicesCheckReturned =>
        /\ inserted[3] = ExpectedEmptyInvoiceRows
        /\ inserted[3] \sqsubseteq audit
        /\ (positions = {} /\ \E ar \in invoices :
                                  invoices = {ar} /\ ar.ReNummer = Num(1))
              => inserted[3] = SetToBag({AuditRow("Abrechnung_Rechnungen", Num(1),
                                                  "empty_invoice",
                                                  "Invoice has no associated positions")})

\* C9 witness: invoice 1 has a position, invoice 2 has none: the check has logged
\* exactly one row, for invoice 2.
C9_Witness ==
    /\ InvoicesCheckReturned
    /\ {ar.ReNummer : ar \in invoices} = {Num(1), Num(2)}
    /\ {ap.ReId : ap \in positions} = {Num(1)}
    /\ BagCardinality(inserted[3]) = 1
    /\ \A r \in BagToSet(inserted[3]) :
          /\ r.TableName = "Abrechnung_Rechnungen"
          /\ r.RecordId = Num(2)
          /\ r.IssueType = "empty_invoice"

\* C10: a run never removes a row the audit table held when the run started, and
\* two successful runs in succession write the same findings twice: after the
\* second, each finding of the first is in the table two more times than before.
C10_RerunAppendsDuplicates ==
    job = "quality" =>
        /\ audit_committed \sqsubseteq audit
        /\ \A k \in DOMAIN runs_done :
              /\ runs_done[k].start \sqsubseteq audit_committed
              /\ (k > 1 /\ runs_done[k - 1].ok /\ runs_done[k].ok) =>
                    /\ runs_done[k].findings = runs_done[k - 1].findings
                    /\ runs_done[k].start
                         = runs_done[k - 1].start (+) runs_done[k - 1].findings
                    /\ \A r \in BagToSet(runs_done[k - 1].findings) :
                          k = Len(runs_done) =>
                             CopiesIn(r, audit_committed)
                               = CopiesIn(r, runs_done[k - 1].start)
                                 + 2 * CopiesIn(r, runs_done[k - 1].findings)

\* C10 witness: two successful runs on tables with a defect; the finding was in
\* the audit table before the first run and is there three times after the second.
C10_Witness ==
    /\ job = "quality"
    /\ pc = "q_done"
    /\ Len(runs_done) = 2
    /\ runs_done[1].ok /\ runs_done[2].ok
    /\ BagIn(EarlierRow, runs_done[1].start)
    /\ BagIn(EarlierRow, runs_done[1].findings)
    /\ CopiesIn(EarlierRow, audit_committed) >= 3

----------------------------------------------------------------------------
(* Properties of the validator *)

\* perform_validation_checks was called, and whether it returned its list.
Validated == job = "validator" /\ results.ran
Returned == Validated /\ ~results.raised

\* The issues of a list written under a rule for a row.
IssuesFor(issues, rule, row) ==
    {k \in DOMAIN issues : issues[k].rule = rule /\ issues[k].row = row}

\* The distinct issue strings of a list.
Strings(issues) == {issues[k].text : k \in DOMAIN issues}

\* How often a string is in a list.
Occurrences(issues, text) == Cardinality({k \in DOMAIN issues : issues[k].text = text})

\* C6 (as claimed): a reference value that is text and no number (Invoice.KdNr,
\* Position.ReId, Position.KdNr) gives an 'Invalid' issue for its row and no
\* 'Missing' issue for that field, and the checks return their lists.
C6_GarbageReportedInvalid ==
    Validated =>
        /\ \A i \in DOMAIN invoices_df :
              invoices_df[i].KdNr = Garbage =>
                 /\ ~results.invoice_issues.raised
                 /\ IssuesFor(results.invoice_issues.issues, "I2", i) # {}
                 /\ (~isnull(invoices_df[i].ReNummer) =>
                        IssuesFor(results.invoice_issues.issues, "I1", i) = {})
        /\ \A i \in DOMAIN positions_df :
              /\ positions_df[i].ReId = Garbage =>
                    /\ ~results.raised
                    /\ IssuesFor(results.position_issues.issues, "P2", i) # {}
                    /\ IssuesFor(results.position_issues.issues, "P1", i) = {}
              /\ positions_df[i].KdNr = Garbage =>
                    /\ ~results.raised
                    /\ IssuesFor(results.position_issues.issues, "P3", i) # {}

\* Every invoice row whose KdNr is null has exactly one issue under I1 and none
\* under I2; every position row whose ReId is null has exactly one issue under P1
\* and none under P2.
NullReferenceReportedOnce ==
    /\ \A i \in DOMAIN invoices_df :
          isnull(invoices_df[i].KdNr) =>
             /\ Cardinality(IssuesFor(results.invoice_issues.issues, "I1", i)) = 1
             /\ IssuesFor(results.invoice_issues.issues, "I2", i) = {}
    /\ \A i \in DOMAIN positions_df :
          isnull(positions_df[i].ReId) =>
             /\ Cardinality(IssuesFor(results.position_issues.issues, "P1", i)) = 1
             /\ IssuesFor(results.position_issues.issues, "P2", i) = {}

\* C7 (as claimed): for every input, an invoice row whose KdNr is null gets
\* exactly one issue under I1 and none under I2, and a position row whose ReId is
\* null gets exactly one issue under P1 and none under P2.
C7_NullReferenceReportedOnce == Validated => NullReferenceReportedOnce

\* What holds of the null rows: they are reported once whenever the checks return
\* (no text value made the formatting of an 'Invalid' message raise).
NullReferenceReportedOnceIfReturned == Returned => NullReferenceReportedOnce

\* The quality checker's part of C8: the total reported is the sum of the three
\* checks' returned counts, and each count is the number of audit rows the check
\* inserted.
QualityCountsAddUp ==
    job = "quality" =>
        /\ \A c \in DOMAIN CHECKS : counts[c] = BagCardinality(inserted[c])
        /\ logs_count = counts[1] + counts[2] + counts[3]
        /\ reported # NotReported => reported = counts[1] + counts[2] + counts[3]

----------------------------------------------------------------------------
(* Claims about the loader job: main of src/src/data_loader.py *)

\* The job has ended because the load of a table failed.
LoadFailed == job = "loader" /\ main_i > 0 /\ pc = "exited" /\ exc # "none"

\* Position i of TABLES_MAP holds exactly what its CSV held, committed.
NewlyLoaded(i) ==
    /\ i <= Len(calls)
    /\ committed[TABLES_MAP[i]] = calls[i]
    /\ db[TABLES_MAP[i]] = calls[i]

\* Position i of TABLES_MAP holds exactly what it held when the job started.
AsBeforeRun(i) ==
    /\ committed[TABLES_MAP[i]] = pre_run[TABLES_MAP[i]]
    /\ db[TABLES_MAP[i]] = pre_run[TABLES_MAP[i]]

\* C11: main loads the tables of TABLES_MAP one after another, each in its own
\* transaction that is committed before the next table starts: while the job
\* works on position main_i, every earlier table holds its newly loaded rows,
\* committed, and no later table has been touched (no insert_data call was made
\* for it and it holds what it held before the run).  When the load of a table
\* fails, the earlier tables keep their new contents, the failing table holds
\* its pre-run contents again, the later tables are untouched, and the job
\* exits with a non-zero status.
C11_FailedLoadKeepsEarlierTables ==
    (job = "loader" /\ main_i > 0) =>
        /\ \A i \in 1..(main_i - 1) : NewlyLoaded(i)
        /\ \A i \in (main_i + 1)..Len(TABLES_MAP) : Len(calls) < i /\ AsBeforeRun(i)
        /\ LoadFailed =>
              /\ AsBeforeRun(main_i)
              /\ exit_status \notin {0, NoExit}
        /\ (pc = "exited" /\ exit_status = 0) => exc = "none"

\* The load of the second table failed after TRUNCATE and a row had been sent;
\* the first table was replaced by different rows, the second and third held rows.
C11_Witness ==
    /\ LoadFailed
    /\ main_i = 2
    /\ failed = {"to_sql"}
    /\ "truncate" \in executed
    /\ appended > 0
    /\ calls[1] # pre_run[TABLES_MAP[1]]
    /\ calls[2] # pre_run[TABLES_MAP[2]]
    /\ pre_run[TABLES_MAP[2]] # <<>>
    /\ committed[TABLES_MAP[1]] = calls[1]
    /\ committed[TABLES_MAP[2]] = pre_run[TABLES_MAP[2]]
    /\ committed[TABLES_MAP[3]] = pre_run[TABLES_MAP[3]]
    /\ exit_status = 1

====
